---- MODULE Spec2Model ----
(***************************************************************************)
(* pdf2svg-rs: the copy loop of main (src/src/main.rs) and the text layer  *)
(* renderer render_text (src/src/text.rs).                                 *)
(*                                                                         *)
(* Numbers.  An f32 is a record [k, n]: k = "fin" with the value n, "inf"  *)
(* with the sign n, or "nan".  Lengths (item positions, advance widths,    *)
(* the e and f coefficients of a matrix) are counted in tenths of a unit,  *)
(* so that the fallback advance 0.3 is the integer 3; the coefficients a,  *)
(* b, c, d of a matrix and the font size are plain ratios.  Signed zeros   *)
(* and rounding are not modelled: every finite operation of the model is   *)
(* exact on the inputs it is given.                                        *)
(***************************************************************************)
EXTENDS Integers, Sequences, FiniteSets, TLC

VARIABLES pc, input, pos, no_text, sink, cmt, todo, span, items, line,
          spansLeft, itemsLeft, arg, res

vars == <<pc, input, pos, no_text, sink, cmt, todo, span, items, line,
          spansLeft, itemsLeft, arg, res>>

(***************************************************************************)
(* Bounds of the model.                                                    *)
(***************************************************************************)
MaxItems == 3
MaxSpans == 2
MaxBody == 2
MaxNameLen == 5
MaxCoef == 1

(***************************************************************************)
(* f32 arithmetic.                                                         *)
(***************************************************************************)
Fin(n) == [k |-> "fin", n |-> n]
NaN == [k |-> "nan", n |-> 0]
Inf(s) == [k |-> "inf", n |-> s]

Sgn(n) == IF n < 0 THEN -1 ELSE 1
Abs(n) == IF n < 0 THEN -n ELSE n

FNeg(u) ==
  CASE u.k = "nan" -> NaN
    [] u.k = "inf" -> Inf(-u.n)
    [] OTHER -> Fin(-u.n)

FAdd(u, v) ==
  CASE u.k = "nan" \/ v.k = "nan" -> NaN
    [] u.k = "inf" /\ v.k = "inf" -> IF u.n = v.n THEN u ELSE NaN
    [] u.k = "inf" -> u
    [] v.k = "inf" -> v
    [] OTHER -> Fin(u.n + v.n)

FMul(u, v) ==
  CASE u.k = "nan" \/ v.k = "nan" -> NaN
    [] u.k = "inf" /\ v.k = "inf" -> Inf(u.n * v.n)
    [] u.k = "inf" -> IF v.n = 0 THEN NaN ELSE Inf(u.n * Sgn(v.n))
    [] v.k = "inf" -> IF u.n = 0 THEN NaN ELSE Inf(v.n * Sgn(u.n))
    [] OTHER -> Fin(u.n * v.n)

\* Truncating quotient of two integers (exact whenever d divides n).
Quot(n, d) == Sgn(n) * Sgn(d) * (Abs(n) \div Abs(d))

FDiv(u, v) ==
  CASE u.k = "nan" \/ v.k = "nan" -> NaN
    [] u.k = "inf" /\ v.k = "inf" -> NaN
    [] u.k = "inf" -> Inf(u.n * Sgn(v.n))
    [] v.k = "inf" -> Fin(0)
    [] v.n = 0 -> IF u.n = 0 THEN NaN ELSE Inf(Sgn(u.n))
    [] OTHER -> Fin(Quot(u.n, v.n))

\* The comparison != of two f32: a NaN differs from everything, itself included.
FNe(u, v) == u.k = "nan" \/ v.k = "nan" \/ u # v

ISqrt(n) == CHOOSE r \in 0..n : r * r <= n /\ n < (r + 1) * (r + 1)

(***************************************************************************)
(* Matrices.                                                               *)
(***************************************************************************)
Matrix(a, b, c, d, e, f) == [a |-> a, b |-> b, c |-> c, d |-> d, e |-> e, f |-> f]
IDENTITY == Matrix(Fin(1), Fin(0), Fin(0), Fin(1), Fin(0), Fin(0))
IntMatrix(a, b, c, d, e, f) == Matrix(Fin(a), Fin(b), Fin(c), Fin(d), Fin(e), Fin(f))

\* Matrix::expansion of mupdf: sqrt(|a*d - b*c|), on finite coefficients.
expansion(m) == Fin(ISqrt(Abs(m.a.n * m.d.n - m.b.n * m.c.n)))

concat_matrix(m1, m2) ==
  Matrix(FAdd(FMul(m1.a, m2.a), FMul(m1.b, m2.c)),
         FAdd(FMul(m1.a, m2.b), FMul(m1.b, m2.d)),
         FAdd(FMul(m1.c, m2.a), FMul(m1.d, m2.c)),
         FAdd(FMul(m1.c, m2.b), FMul(m1.d, m2.d)),
         FAdd(FAdd(FMul(m1.e, m2.a), FMul(m1.f, m2.c)), m2.e),
         FAdd(FAdd(FMul(m1.e, m2.b), FMul(m1.f, m2.d)), m2.f))

transform_point(m, p) ==
  <<FAdd(FAdd(FMul(m.a, p[1]), FMul(m.c, p[2])), m.e),
    FAdd(FAdd(FMul(m.b, p[1]), FMul(m.d, p[2])), m.f)>>

format_matrix(m) == <<m.a, m.b, m.c, m.d, m.e, m.f>>

\* The matrix render_text calls inv, from the span's text matrix.
InvOf(trm) ==
  LET fontsize == expansion(trm)
  IN  Matrix(FDiv(trm.d, fontsize), FDiv(FNeg(trm.b), fontsize),
             FDiv(FNeg(trm.c), fontsize), FDiv(FNeg(trm.a), fontsize),
             Fin(0), Fin(0))

(***************************************************************************)
(* Font family: a font name is a sequence of one-character strings.        *)
(***************************************************************************)
\* str::find / str::rfind of one character: its index, 0 for None.
Find(s, ch) ==
  IF \E i \in 1..Len(s) : s[i] = ch
  THEN CHOOSE i \in 1..Len(s) : s[i] = ch /\ \A j \in 1..(i - 1) : s[j] # ch
  ELSE 0

RFind(s, ch) ==
  IF \E i \in 1..Len(s) : s[i] = ch
  THEN CHOOSE i \in 1..Len(s) : s[i] = ch /\ \A j \in (i + 1)..Len(s) : s[j] # ch
  ELSE 0

\* FontFamily with the prefix cut at the last '+' instead of the first.
FontFamilyLastPlus(name) ==
  LET prefix == RFind(name, "+")
      rest == IF prefix # 0 THEN SubSeq(name, prefix + 1, Len(name)) ELSE name
      suffix == RFind(rest, "-")
  IN  IF suffix # 0 THEN SubSeq(rest, 1, suffix - 1) ELSE rest

\* The family render_text derives from the font's name.
FontFamily(name) ==
  LET prefix == Find(name, "+")
      rest == IF prefix # 0 THEN SubSeq(name, prefix + 1, Len(name)) ELSE name
      suffix == RFind(rest, "-")
  IN  IF suffix # 0 THEN SubSeq(rest, 1, suffix - 1) ELSE rest

(***************************************************************************)
(* Events of the XML reader and writer.  Text is a sequence of code        *)
(* points; an attribute is a pair <<key, value>>.                          *)
(***************************************************************************)
Start(name, attrs) == [type |-> "Start", name |-> name, attrs |-> attrs, content |-> <<>>]
End(name) == [type |-> "End", name |-> name, attrs |-> <<>>, content |-> <<>>]
Empty(name, attrs) == [type |-> "Empty", name |-> name, attrs |-> attrs, content |-> <<>>]
Text(content) == [type |-> "Text", name |-> "", attrs |-> <<>>, content |-> content]
\* What read_event returns for input the reader rejects.
Err == [type |-> "Err", name |-> "", attrs |-> <<>>, content |-> <<>>]

\* quick_xml::escape::escape on one character.
EscapeChar(c) ==
  CASE c = 60 -> <<38, 108, 116, 59>>
    [] c = 62 -> <<38, 103, 116, 59>>
    [] c = 38 -> <<38, 97, 109, 112, 59>>
    [] c = 39 -> <<38, 97, 112, 111, 115, 59>>
    [] c = 34 -> <<38, 113, 117, 111, 116, 59>>
    [] OTHER -> <<c>>

RECURSIVE escape(_)
escape(text) ==
  IF text = <<>> THEN <<>> ELSE EscapeChar(Head(text)) \o escape(Tail(text))

(***************************************************************************)
(* Text spans and their items.                                             *)
(***************************************************************************)
Horizontal == "Horizontal"
Vertical == "Vertical"

\* char::from_u32(u).is_some(): a Unicode scalar value.
IsChar(u) == u >= 0 /\ u <= 1114111 /\ ~(u >= 55296 /\ u <= 57343)

\* ItemFilter without the check that ucs is a scalar value.
ItemFilterNoScalarCheck(c) == c.ucs >= 0

\* The filter of the item loop.
ItemFilter(c) == c.ucs >= 0 /\ IsChar(c.ucs)

\* Width of the fallback advance, 0.3, in tenths.
FallbackWidth == 3

\* Font::advance_glyph_with_wmode of the font the model draws with: the
\* horizontal advance of every glyph is 0.5, a vertical advance is not
\* available (the lookup fails).
advance_glyph_with_wmode(gid, vertical) ==
  IF vertical THEN [ok |-> FALSE, w |-> Fin(0)] ELSE [ok |-> TRUE, w |-> Fin(5)]

unwrap_or(r, default) == IF r.ok THEN r.w ELSE default

\* (primary, secondary) of an item.
Axes(inv, wmode, item) ==
  LET xy == transform_point(inv, <<item.x, item.y>>)
  IN  IF wmode = Horizontal THEN [primary |-> xy[1], secondary |-> xy[2]]
      ELSE [primary |-> xy[2], secondary |-> xy[1]]

\* Option<Line> is a sequence of at most one Line.
None == <<>>
Some(l) == <<l>>

\* NeedNewLine without the comparison of the secondary coordinates.
NeedNewLineNever(ln, secondary) == ln = None

\* line.as_ref().is_none_or(|s| s.secondary != secondary)
NeedNewLine(ln, secondary) == ln = None \/ FNe(ln[1].secondary, secondary)

NewLine(wmode, secondary) ==
  [elem |-> Start("tspan", <<<<IF wmode = Horizontal THEN "y" ELSE "x", <<secondary>>>>>>),
   glyphs |-> <<>>,
   secondary |-> secondary,
   text |-> <<>>]

GlyphMetrics(width, primary, followings) ==
  [width |-> width, primary |-> primary, followings |-> followings]

\* An item that has no glyph, on a line that has one: followings += 0.
BumpLast(glyphs) ==
  [glyphs EXCEPT ![Len(glyphs)].followings = @ + 0]

\* PushItem with the character pushed only for an item that has a glyph.
PushItemGlyphsOnly(l, item, primary, wmode) ==
  IF item.gid >= 0
  THEN [l EXCEPT !.glyphs = Append(@, GlyphMetrics(
            unwrap_or(advance_glyph_with_wmode(item.gid, wmode # Horizontal),
                      Fin(FallbackWidth)), primary, 0)),
                 !.text = Append(@, item.ucs)]
  ELSE l

\* The body of the item loop after the line is chosen.
PushItem(l, item, primary, wmode) ==
  LET glyphs ==
        IF item.gid >= 0
        THEN Append(l.glyphs, GlyphMetrics(
               unwrap_or(advance_glyph_with_wmode(item.gid, wmode # Horizontal),
                         Fin(FallbackWidth)), primary, 0))
        ELSE IF l.glyphs # <<>>
        THEN BumpLast(l.glyphs)
        ELSE Append(l.glyphs, GlyphMetrics(Fin(0), primary, 0))
  IN  [l EXCEPT !.glyphs = glyphs, !.text = Append(@, item.ucs)]

\* The offsets Line::emit computes for one glyph.
GlyphOffsets(glyph) ==
  LET adv == FDiv(glyph.width, Fin(glyph.followings + 1))
  IN  <<glyph.primary>> \o
      [i \in 1..glyph.followings |-> FAdd(glyph.primary, FMul(adv, Fin(i)))]

RECURSIVE Offsets(_)
Offsets(glyphs) ==
  IF glyphs = <<>> THEN <<>> ELSE GlyphOffsets(Head(glyphs)) \o Offsets(Tail(glyphs))

\* The formatted offsets joined by single spaces, as a sequence of tokens.
RECURSIVE Join(_)
Join(s) ==
  IF Len(s) <= 1 THEN s ELSE <<Head(s), " ">> \o Join(Tail(s))

\* emit without the end event of the tspan.
emitUnclosed(l, wmode) ==
  <<[l.elem EXCEPT !.attrs = Append(@, <<IF wmode = Horizontal THEN "x" ELSE "y",
                                         Join(Offsets(l.glyphs))>>)],
    Text(escape(l.text))>>

\* Line::emit: the three events it writes.
emit(l, wmode) ==
  <<[l.elem EXCEPT !.attrs = Append(@, <<IF wmode = Horizontal THEN "x" ELSE "y",
                                         Join(Offsets(l.glyphs))>>)],
    Text(escape(l.text)),
    End("tspan")>>

\* if let Some(line) = line.take() { line.emit(..) }
EmitTaken(ln, wmode) == IF ln = None THEN <<>> ELSE emit(ln[1], wmode)

\* The start event of a span's text element.
TextStart(sp, m) ==
  LET fontsize == expansion(sp.trm)
      transform == concat_matrix(InvOf(sp.trm), m)
  IN  Start("text",
        <<<<"xml:space", "preserve">>,
          <<"transform", format_matrix(transform)>>,
          <<"font-family", FontFamily(sp.font)>>,
          <<"font-size", <<fontsize, "pt">>>>>> \o
        (IF sp.wmode = Vertical THEN <<<<"writing-mode", "tb">>>> ELSE <<>>) \o
        <<<<"opacity", "0">>>>)

(***************************************************************************)
(* Inputs.                                                                 *)
(***************************************************************************)
\* Sequences over S of length at most n.
SeqUpTo(S, n) == UNION {[1..k -> S] : k \in 0..n}

\* The device matrix of a page 792 units high: the y axis flipped.
CmtSet == {IntMatrix(1, 0, 0, -1, 0, 7920)}
FontNames == {<<"S", "+", "F", "-", "B">>}

Item(x, y, gid, ucs) == [x |-> Fin(x), y |-> Fin(y), gid |-> gid, ucs |-> ucs]

\* A glyph with its character 'a', on two positions; at the second one a
\* character '<' without a glyph (a ligature component); a glyph without a
\* character; an item whose ucs is a surrogate.
ItemSet ==
  {Item(0, 0, 1, 97), Item(10, 10, 1, 97), Item(10, 10, -1, 60),
   Item(0, 0, 1, -1), Item(10, 10, -1, 55296)}

\* Horizontal and vertical spans of font size 2, and a horizontal span whose
\* text matrix is singular (font size 0).
SpanSet ==
  {[trm |-> IntMatrix(2, 0, 0, 2, 0, 0), wmode |-> w, font |-> f] :
     w \in {Horizontal, Vertical}, f \in FontNames}
  \cup {[trm |-> IntMatrix(1, 1, 1, 1, 0, 0), wmode |-> Horizontal, font |-> f] :
     f \in FontNames}
NoSpan == [trm |-> IDENTITY, wmode |-> Horizontal, font |-> <<>>]

\* The XML declaration that opens the page's SVG.
Decl == [type |-> "Decl", name |-> "xml", attrs |-> <<<<"version", "1.0">>>>, content |-> <<>>]

\* The events of the page's SVG that are not the svg element's own.
SvgStart == Start("svg", <<<<"version", "1.1">>>>)
BodyEvents ==
  {Start("g", <<<<"id", "page1">>>>), End("g"), Empty("path", <<<<"d", "M0 0">>>>),
   Text(<<10>>)}

\* The number of elements a sequence of events leaves open, -1 when one of
\* its end events has no element to close (the reader reports no such event).
RECURSIVE DepthAfter(_, _)
DepthAfter(evs, depth) ==
  IF evs = <<>> THEN depth
  ELSE CASE Head(evs).type = "Start" -> DepthAfter(Tail(evs), depth + 1)
         [] Head(evs).type = "End" ->
              IF depth = 0 THEN -1 ELSE DepthAfter(Tail(evs), depth - 1)
         [] OTHER -> DepthAfter(Tail(evs), depth)

\* What the reader makes of the page's SVG: the declaration, one svg element
\* around a body of at most n events, then a newline; or the start of one,
\* up to an error.
Documents(n) ==
  {<<Decl, SvgStart>> \o body \o <<End("svg"), Text(<<10>>)>> :
     body \in {b \in SeqUpTo(BodyEvents, n) : DepthAfter(b, 0) = 0}}
  \cup {<<Decl, SvgStart>> \o body \o <<Err>> :
     body \in {b \in SeqUpTo(BodyEvents, n) : DepthAfter(b, 0) >= 0}}

(***************************************************************************)
(* main: the copy loop.                                                    *)
(***************************************************************************)
\* IsSvgEnd without the test of the name.
IsAnyEnd(e) == e.type = "End"

\* Ok(Event::End(e)) if e.name().as_ref() == b"svg"
IsSvgEnd(e) == e.type = "End" /\ e.name = "svg"

renderVars == <<cmt, todo, span, items, line, spansLeft, itemsLeft>>
pureVars == <<arg, res>>

\* Ok(Event::Eof) => break, and the output is printed.
ReadEof ==
  /\ pc = "copy"
  /\ pos > Len(input)
  /\ pc' = "done"
  /\ UNCHANGED <<input, pos, no_text, sink, renderVars, pureVars>>

\* The closing tag of svg: the group is opened and the page is run on the
\* text device, unless --no-text.
ReadSvgEnd ==
  /\ pc = "copy"
  /\ pos <= Len(input)
  /\ IsSvgEnd(input[pos])
  /\ IF ~no_text
     THEN /\ sink' = Append(sink, Start("g", <<>>))
          /\ pc' = "device"
          /\ pos' = pos
     ELSE /\ sink' = Append(sink, input[pos])
          /\ pc' = "copy"
          /\ pos' = pos + 1
  /\ UNCHANGED <<input, no_text, renderVars, pureVars>>

\* page.run returns: the group is closed and the closing tag copied.
RenderReturn ==
  /\ pc = "device"
  /\ sink' = sink \o <<End("g"), input[pos]>>
  /\ pos' = pos + 1
  /\ pc' = "copy"
  /\ UNCHANGED <<input, no_text, renderVars, pureVars>>

\* Ok(e) => write_event(e.borrow())
CopyEvent ==
  /\ pc = "copy"
  /\ pos <= Len(input)
  /\ input[pos].type # "Err"
  /\ ~IsSvgEnd(input[pos])
  /\ sink' = Append(sink, input[pos])
  /\ pos' = pos + 1
  /\ UNCHANGED <<pc, input, no_text, renderVars, pureVars>>

\* Err(e) => bail!
ReadErr ==
  /\ pc = "copy"
  /\ pos <= Len(input)
  /\ input[pos].type = "Err"
  /\ pc' = "failed"
  /\ UNCHANGED <<input, pos, no_text, sink, renderVars, pureVars>>

(***************************************************************************)
(* The text device: each callback runs render_text on its text.            *)
(***************************************************************************)
\* The entry of render_text(text, cmt, output) for a text of n spans.
render_text(m, n) ==
  /\ pc = "device"
  /\ n <= spansLeft
  /\ cmt' = m
  /\ todo' = n
  /\ pc' = IF n = 0 THEN "device" ELSE "text"
  /\ UNCHANGED <<input, pos, no_text, sink, span, items, line, spansLeft, itemsLeft,
                 pureVars>>

fill_text == \E m \in CmtSet, n \in 0..MaxSpans : render_text(m, n)
stroke_text == \E m \in CmtSet, n \in 0..MaxSpans : render_text(m, n)
clip_text == \E m \in CmtSet, n \in 0..MaxSpans : render_text(m, n)
clip_stroke_text == \E m \in CmtSet, n \in 0..MaxSpans : render_text(m, n)

\* The head of the loop over spans, up to the start event of the text element.
BeginSpan ==
  /\ pc = "text"
  /\ \E sp \in SpanSet :
       /\ span' = sp
       /\ sink' = Append(sink, TextStart(sp, cmt))
  /\ items' = <<>>
  /\ line' = None
  /\ spansLeft' = spansLeft - 1
  /\ pc' = "span"
  /\ UNCHANGED <<input, pos, no_text, cmt, todo, itemsLeft, pureVars>>

\* One round of the loop over the span's items (the filter included).
NextItem ==
  /\ pc = "span"
  /\ itemsLeft > 0
  /\ \E item \in ItemSet :
       /\ items' = Append(items, item)
       /\ IF ItemFilter(item)
          THEN LET ax == Axes(InvOf(span.trm), span.wmode, item)
                   fresh == NeedNewLine(line, ax.secondary)
                   open == IF fresh THEN NewLine(span.wmode, ax.secondary) ELSE line[1]
               IN  /\ sink' = IF fresh THEN sink \o EmitTaken(line, span.wmode) ELSE sink
                   /\ line' = Some(PushItem(open, item, ax.primary, span.wmode))
          ELSE UNCHANGED <<sink, line>>
  /\ itemsLeft' = itemsLeft - 1
  /\ UNCHANGED <<pc, input, pos, no_text, cmt, todo, span, spansLeft, pureVars>>

\* The items are exhausted: the open line is emitted and the text element closed.
EndSpan ==
  /\ pc = "span"
  /\ sink' = sink \o EmitTaken(line, span.wmode) \o <<End("text")>>
  /\ line' = None
  /\ todo' = todo - 1
  /\ pc' = IF todo = 1 THEN "device" ELSE "text"
  /\ UNCHANGED <<input, pos, no_text, cmt, span, items, spansLeft, itemsLeft, pureVars>>

(***************************************************************************)
(* The program.                                                            *)
(***************************************************************************)
InitProgram(docs, flags, nspans, nitems) ==
  /\ pc = "copy"
  /\ input \in docs
  /\ pos = 1
  /\ no_text \in flags
  /\ sink = <<>>
  /\ cmt = IDENTITY
  /\ todo = 0
  /\ span = NoSpan
  /\ items = <<>>
  /\ line = None
  /\ spansLeft = nspans
  /\ itemsLeft = nitems
  /\ arg = <<>>
  /\ res = <<>>

\* A page of at most MaxSpans spans and MaxItems items, in the smallest documents.
Init == InitProgram(Documents(0), {FALSE}, MaxSpans, MaxItems)

Next ==
  \/ ReadEof
  \/ ReadSvgEnd
  \/ RenderReturn
  \/ CopyEvent
  \/ ReadErr
  \/ fill_text
  \/ stroke_text
  \/ clip_text
  \/ clip_stroke_text
  \/ BeginSpan
  \/ NextItem
  \/ EndSpan

Spec == Init /\ [][Next]_vars

\* Every document of at most MaxBody body events, with and without --no-text,
\* around a page of one span of one item.
InitMain == InitProgram(Documents(MaxBody), BOOLEAN, 1, 1)

SpecMain == InitMain /\ [][Next]_vars

(***************************************************************************)
(* The run normalizer alone: inv, the placement transform and the local    *)
(* coordinates of one item, for every text matrix of font size 1.          *)
(***************************************************************************)
Coefs == (-MaxCoef)..MaxCoef

TrmUnit ==
  {IntMatrix(a, b, c, d, 0, 0) : a \in Coefs, b \in Coefs, c \in Coefs, d \in Coefs}

\* Text matrices with |a*d - b*c| = 1.
Unimodular == {m \in TrmUnit : Abs(m.a.n * m.d.n - m.b.n * m.c.n) = 1}

DeviceMatrices ==
  {IDENTITY, IntMatrix(1, 0, 0, -1, 0, 7920), IntMatrix(2, 0, 0, 2, 0, 0),
   IntMatrix(0, 1, -1, 0, 10, 0)}

Points == {<<Fin(x), Fin(y)>> : x \in {0, 10}, y \in {0, 20}}

InitPure(stage, args) ==
  /\ pc = stage
  /\ arg \in args
  /\ res = <<>>
  /\ input = <<>>
  /\ pos = 1
  /\ no_text = FALSE
  /\ sink = <<>>
  /\ cmt = IDENTITY
  /\ todo = 0
  /\ span = NoSpan
  /\ items = <<>>
  /\ line = None
  /\ spansLeft = 0
  /\ itemsLeft = 0

InitMatrix == InitPure("normalize", [trm : Unimodular, cmt : DeviceMatrices, p : Points])

\* The head of render_text's span loop and the first statement of its item loop.
Normalize ==
  /\ pc = "normalize"
  /\ LET inv == InvOf(arg.trm)
     IN  res' = [inv |-> inv,
                 transform |-> concat_matrix(inv, arg.cmt),
                 local |-> transform_point(inv, arg.p)]
  /\ pc' = "normalized"
  /\ UNCHANGED <<input, pos, no_text, sink, renderVars, arg>>

NextMatrix == Normalize

SpecMatrix == InitMatrix /\ [][NextMatrix]_vars

(***************************************************************************)
(* The font family alone, for every name of at most MaxNameLen characters. *)
(***************************************************************************)
NameChars == {"+", "-", "F", "S"}

InitFont == InitPure("name", SeqUpTo(NameChars, MaxNameLen))

ResolveFamily ==
  /\ pc = "name"
  /\ res' = FontFamily(arg)
  /\ pc' = "named"
  /\ UNCHANGED <<input, pos, no_text, sink, renderVars, arg>>

NextFont == ResolveFamily

SpecFont == InitFont /\ [][NextFont]_vars

(***************************************************************************)
(* Reading the sink back.                                                  *)
(***************************************************************************)
IsStart(e, name) == e.type = "Start" /\ e.name = name
IsEnd(e, name) == e.type = "End" /\ e.name = name
Last(s) == s[Len(s)]
Front(s) == SubSeq(s, 1, Len(s) - 1)

\* The entities of XML character data and the characters they stand for.
Entities ==
  {[text |-> <<38, 108, 116, 59>>, char |-> 60],
   [text |-> <<38, 103, 116, 59>>, char |-> 62],
   [text |-> <<38, 97, 109, 112, 59>>, char |-> 38],
   [text |-> <<38, 97, 112, 111, 115, 59>>, char |-> 39],
   [text |-> <<38, 113, 117, 111, 116, 59>>, char |-> 34]}

IsPrefix(p, s) == Len(p) <= Len(s) /\ SubSeq(s, 1, Len(p)) = p

\* The characters a consumer of the markup reads from escaped character data.
RECURSIVE Unescape(_)
Unescape(s) ==
  IF s = <<>> THEN <<>>
  ELSE IF \E e \in Entities : IsPrefix(e.text, s)
  THEN LET e == CHOOSE e \in Entities : IsPrefix(e.text, s)
       IN  <<e.char>> \o Unescape(SubSeq(s, Len(e.text) + 1, Len(s)))
  ELSE <<Head(s)>> \o Unescape(Tail(s))

\* The number of entries of an offset list (entries and single spaces alternate).
CountOffsets(v) == (Len(v) + 1) \div 2

\* The index of the start event of the text element written last, 0 if none.
RECURSIVE LastTextStartIn(_, _)
LastTextStartIn(evs, i) ==
  IF i = 0 \/ IsStart(evs[i], "text") THEN i ELSE LastTextStartIn(evs, i - 1)

LastTextStart == LastTextStartIn(sink, Len(sink))

\* The variables span and items describe the text element written last: its
\* span is being rendered, or has just been rendered.
SpanOpen == pc = "span"
SpanClosed == pc # "span" /\ Len(sink) > 0 /\ Last(sink) = End("text")

\* The events written for that span after its start event, the end event of
\* the text element left out.
SpanBody ==
  LET evs == SubSeq(sink, LastTextStart + 1, Len(sink))
  IN  IF SpanClosed THEN Front(evs) ELSE evs

\* The tspan elements at the head of a sequence of events.
RECURSIVE Tspans(_)
Tspans(evs) ==
  IF Len(evs) >= 3 /\ IsStart(evs[1], "tspan") /\ evs[2].type = "Text"
     /\ IsEnd(evs[3], "tspan")
  THEN <<[secondary |-> evs[1].attrs[1][2][1], text |-> Unescape(evs[2].content)]>>
       \o Tspans(SubSeq(evs, 4, Len(evs)))
  ELSE <<>>

\* The lines of the span: the tspans written, then the line still open.
SpanLines ==
  Tspans(SpanBody) \o
  (IF line = None THEN <<>>
   ELSE <<[secondary |-> line[1].secondary, text |-> line[1].text]>>)

\* A non-negative Unicode scalar value.
ValidScalar(u) == (0 <= u /\ u < 55296) \/ (57343 < u /\ u <= 1114111)
ValidItems(its) == SelectSeq(its, LAMBDA c : ValidScalar(c.ucs))

SecondaryOf(item) == Axes(InvOf(span.trm), span.wmode, item).secondary
SameSecondary(u, v) == u.k # "nan" /\ v.k # "nan" /\ u = v

\* The maximal blocks of consecutive items with equal secondary coordinate.
RECURSIVE Blocks(_)
Blocks(its) ==
  IF its = <<>> THEN <<>>
  ELSE LET n == Len(its)
           init == Blocks(Front(its))
           sec == SecondaryOf(its[n])
       IN  IF n > 1 /\ SameSecondary(SecondaryOf(its[n - 1]), sec)
           THEN [init EXCEPT ![Len(init)].text = Append(@, its[n].ucs)]
           ELSE Append(init, [secondary |-> sec, text |-> <<its[n].ucs>>])

RECURSIVE Concat(_)
Concat(ls) == IF ls = <<>> THEN <<>> ELSE Head(ls).text \o Concat(Tail(ls))

Count(evs, e) == Cardinality({i \in 1..Len(evs) : evs[i] = e})

(***************************************************************************)
(* C1.  Each tspan carries as many primary-axis offsets in its offset list *)
(* as its text content has characters.                                     *)
(***************************************************************************)
OffsetsMatchText ==
  \A i \in 1..(Len(sink) - 1) :
    IsStart(sink[i], "tspan") =>
      CountOffsets(sink[i].attrs[2][2]) = Len(Unescape(sink[i + 1].content))

(***************************************************************************)
(* C2.  The events written to the sink are well nested: an end event       *)
(* closes the element opened last, a tspan is opened only directly inside  *)
(* an open text element, and once a callback has returned no text or tspan *)
(* element is left open.                                                   *)
(***************************************************************************)
Mismatch == <<"!">>

\* The names of the elements left open by a sequence of events.
RECURSIVE OpenAfter(_, _)
OpenAfter(evs, open) ==
  IF evs = <<>> THEN open
  ELSE LET e == Head(evs)
       IN  CASE e.type = "Start" ->
                  IF e.name = "tspan" /\ (open = <<>> \/ Last(open) # "text")
                  THEN Mismatch
                  ELSE OpenAfter(Tail(evs), Append(open, e.name))
             [] e.type = "End" ->
                  IF open # <<>> /\ Last(open) = e.name
                  THEN OpenAfter(Tail(evs), Front(open))
                  ELSE Mismatch
             [] OTHER -> OpenAfter(Tail(evs), open)

WellNested ==
  LET open == OpenAfter(sink, <<>>)
  IN  /\ open # Mismatch
      /\ \A i \in 1..Len(open) : open[i] # "tspan"
      /\ pc # "span" => \A i \in 1..Len(open) : open[i] # "text"
      /\ pc = "span" => Last(open) = "text"

\* Two callbacks' worth of text elements with tspans have been written.
WellNestedWitness ==
  /\ pc = "device"
  /\ Count(sink, End("text")) >= 2
  /\ Count(sink, End("tspan")) >= 2

(***************************************************************************)
(* C3.  The tspans of a span are the maximal blocks of consecutive valid   *)
(* items with equal secondary coordinate, in run order: nothing else is    *)
(* written between the start and the end of the text element, and the      *)
(* lines (those written and the open one) carry the blocks' secondary      *)
(* coordinates and characters.                                             *)
(***************************************************************************)
LinesAreBlocks ==
  (SpanOpen \/ SpanClosed) =>
    /\ Len(SpanBody) = 3 * Len(Tspans(SpanBody))
    /\ SpanLines = Blocks(ValidItems(items))

\* A span of three lines whose secondary coordinate comes back to the first.
LinesAreBlocksWitness ==
  /\ SpanClosed
  /\ Len(Tspans(SpanBody)) = 3
  /\ Tspans(SpanBody)[1].secondary.k = "fin"
  /\ Tspans(SpanBody)[1].secondary = Tspans(SpanBody)[3].secondary
  /\ Tspans(SpanBody)[1].secondary # Tspans(SpanBody)[2].secondary

(***************************************************************************)
(* C4.  Rendering a span whose text matrix has font size zero writes no    *)
(* event to the sink and does not go on to the span's items: no step that  *)
(* enters or runs such a span changes the sink.                            *)
(***************************************************************************)
ZeroFontSizeWritesNothing ==
  [][((pc = "span" \/ pc' = "span") /\ expansion(span'.trm) = Fin(0))
       => (sink' = sink /\ pc' # "span")]_vars

(***************************************************************************)
(* C5.  A span that produces zero lines writes no element: the sink never  *)
(* holds a text element without a tspan in it.                             *)
(***************************************************************************)
NoEmptyTextElement ==
  \A i \in 1..(Len(sink) - 1) :
    ~(IsStart(sink[i], "text") /\ IsEnd(sink[i + 1], "text"))

(***************************************************************************)
(* C5, amended.  A span that produces zero lines (it has no item with a    *)
(* valid non-negative Unicode scalar) writes a text start event and, right *)
(* after it, the text end event, and no tspan: while it is rendered the    *)
(* start event is the last event of the sink and no line is open, and when *)
(* it is done the two events end the sink.                                 *)
(***************************************************************************)
EmptySpanWritesEmptyText ==
  /\ (SpanOpen /\ ValidItems(items) = <<>>) =>
       /\ line = None
       /\ IsStart(Last(sink), "text")
  /\ (SpanClosed /\ ValidItems(items) = <<>>) =>
       /\ Len(sink) >= 2
       /\ IsStart(sink[Len(sink) - 1], "text")

\* A span whose items all lack a valid scalar (a negative ucs and a
\* surrogate among them) has been rendered.
EmptySpanWitness ==
  /\ SpanClosed
  /\ ValidItems(items) = <<>>
  /\ \E i \in 1..Len(items) : items[i].ucs < 0
  /\ \E i \in 1..Len(items) : items[i].ucs > 0

(***************************************************************************)
(* C6.  A valid item without a glyph id that arrives on the open line,     *)
(* when that line has a GlyphMetric already, adds no GlyphMetric and       *)
(* raises the followings counter of the last one by one.                   *)
(***************************************************************************)
FollowerArrives ==
  /\ pc = "span"
  /\ Len(items') = Len(items) + 1
  /\ ValidScalar(Last(items').ucs)
  /\ Last(items').gid < 0
  /\ line # None
  /\ line[1].glyphs # <<>>
  /\ SameSecondary(line[1].secondary, SecondaryOf(Last(items')))

FollowerIsCounted ==
  [][FollowerArrives =>
       /\ Len(line'[1].glyphs) = Len(line[1].glyphs)
       /\ Last(line'[1].glyphs).followings = Last(line[1].glyphs).followings + 1]_vars

(***************************************************************************)
(* C8.  The text contents of a span's tspans (and of its open line), put   *)
(* together in order, are the characters of exactly the items whose ucs is *)
(* a non-negative valid scalar, in run order, with or without a glyph id;  *)
(* an item with a negative or invalid ucs leaves the sink and the open     *)
(* line as they are.                                                       *)
(***************************************************************************)
TextIsValidItems ==
  (SpanOpen \/ SpanClosed) =>
    Concat(SpanLines) = [i \in 1..Len(ValidItems(items)) |-> ValidItems(items)[i].ucs]

InvalidItemSkipped ==
  (pc = "span" /\ Len(items') = Len(items) + 1 /\ ~ValidScalar(Last(items').ucs))
    => (sink' = sink /\ line' = line)

TextContentIsValidItems == []TextIsValidItems /\ [][InvalidItemSkipped]_vars

\* A rendered span of a glyph, a character without a glyph and an item
\* without a valid scalar, in some order.
TextContentWitness ==
  /\ SpanClosed
  /\ Len(items) = 3
  /\ Len(ValidItems(items)) = 2
  /\ \E i \in 1..3 : ValidScalar(items[i].ucs) /\ items[i].gid < 0
  /\ \E i \in 1..3 : ValidScalar(items[i].ucs) /\ items[i].gid >= 0
  /\ Len(Concat(Tspans(SpanBody))) = 2

(***************************************************************************)
(* C7.  The placement transform compose(inv, cmt) takes the local          *)
(* coordinates apply(inv, p) of an item back to where its glyph is drawn,  *)
(* apply(cmt, p).                                                          *)
(***************************************************************************)
PlacementRoundTrip ==
  pc = "normalized" =>
    transform_point(res.transform, res.local) = transform_point(arg.cmt, arg.p)

(***************************************************************************)
(* C9.  The font family is the name without everything up to and          *)
(* including its first '+' and then without everything from the last       *)
(* remaining '-' onward.                                                   *)
(***************************************************************************)
Has(s, ch) == \E i \in 1..Len(s) : s[i] = ch

\* rest is name after its first '+' (name itself when it has none).
AfterFirstPlus(name, rest) ==
  \/ ~Has(name, "+") /\ rest = name
  \/ \E i \in 1..Len(name) :
       /\ name[i] = "+"
       /\ ~Has(SubSeq(name, 1, i - 1), "+")
       /\ rest = SubSeq(name, i + 1, Len(name))

\* family is rest before its last '-' (rest itself when it has none).
BeforeLastMinus(rest, family) ==
  \/ ~Has(rest, "-") /\ family = rest
  \/ \E j \in 1..Len(rest) :
       /\ rest[j] = "-"
       /\ ~Has(SubSeq(rest, j + 1, Len(rest)), "-")
       /\ family = SubSeq(rest, 1, j - 1)

FirstPlusLastMinus ==
  \E k \in 0..Len(arg) :
    /\ AfterFirstPlus(arg, SubSeq(arg, k + 1, Len(arg)))
    /\ BeforeLastMinus(SubSeq(arg, k + 1, Len(arg)), res)

\* C9 as claimed: moreover every name P+F-S, where F contains neither '+'
\* nor '-', gives F, and a name without '+' and '-' is emitted unchanged.
FamilyOfEveryPFS ==
  pc = "named" =>
    /\ FirstPlusLastMinus
    /\ \A i \in 1..Len(arg), j \in 1..Len(arg) :
         (/\ i < j
          /\ arg[i] = "+"
          /\ arg[j] = "-"
          /\ ~Has(SubSeq(arg, i + 1, j - 1), "+")
          /\ ~Has(SubSeq(arg, i + 1, j - 1), "-"))
         => res = SubSeq(arg, i + 1, j - 1)
    /\ (~Has(arg, "+") /\ ~Has(arg, "-")) => res = arg

\* C9, amended: a name P+F-S gives F when P contains no '+', F contains
\* neither '+' nor '-', and S contains no '-' (the rest of the claim stands).
FamilyOfPFS ==
  pc = "named" =>
    /\ FirstPlusLastMinus
    /\ \A i \in 1..Len(arg), j \in 1..Len(arg) :
         (/\ i < j
          /\ arg[i] = "+"
          /\ arg[j] = "-"
          /\ ~Has(SubSeq(arg, 1, i - 1), "+")
          /\ ~Has(SubSeq(arg, i + 1, j - 1), "+")
          /\ ~Has(SubSeq(arg, i + 1, j - 1), "-")
          /\ ~Has(SubSeq(arg, j + 1, Len(arg)), "-"))
         => res = SubSeq(arg, i + 1, j - 1)
    /\ (~Has(arg, "+") /\ ~Has(arg, "-")) => res = arg

\* The family of a name with a subset tag and a style suffix.
FamilyWitness ==
  /\ pc = "named"
  /\ arg = <<"S", "+", "F", "F", "-">>
  /\ res = <<"F", "F">>

(***************************************************************************)
(* C10.  When main has read the whole stream, the output is the input      *)
(* itself under --no-text; otherwise it is the input with one group        *)
(* element put right before the closing tag of svg, holding the text layer *)
(* and nothing else, every input event copied unchanged and in order       *)
(* around it.                                                              *)
(***************************************************************************)
Wrapper == Start("g", <<>>)
IsTextLayerEvent(e) == e.name \in {"text", "tspan"} \/ e.type = "Text"

TextLayerOnce ==
  pc = "done" =>
    IF no_text THEN sink = input
    ELSE LET k == CHOOSE i \in 1..Len(input) : IsEnd(input[i], "svg")
             tail == Len(input) - k + 1
             close == Len(sink) - tail
         IN  /\ close > k
             /\ SubSeq(sink, 1, k - 1) = SubSeq(input, 1, k - 1)
             /\ sink[k] = Wrapper
             /\ \A i \in (k + 1)..(close - 1) : IsTextLayerEvent(sink[i])
             /\ sink[close] = End("g")
             /\ SubSeq(sink, close + 1, Len(sink)) = SubSeq(input, k, Len(input))
             /\ Count(sink, Wrapper) = 1

\* A page with a group element of its own and a text layer that is not empty.
TextLayerOnceWitness ==
  /\ pc = "done"
  /\ ~no_text
  /\ Count(input, End("g")) >= 1
  /\ Count(sink, End("tspan")) >= 1

====
